---- MODULE Spec2Model ----
(***************************************************************************)
(* A model of strictPy (src/strictPy.py): the runtime validator             *)
(* strictMeta._validateType, the process-wide constraint registry and       *)
(* coercion switch, the invocation guard (strictFunction and                *)
(* strictMeta._wrapMethod) and the attribute guard (strictClass).           *)
(*                                                                         *)
(* Python values and typing annotations are modelled as records; the        *)
(* interpreter's own operations the source relies on (isinstance,           *)
(* get_origin, get_args, int(), float(), str(), hasattr, iteration) are     *)
(* modelled as CPython 3.10+ performs them.                                 *)
(***************************************************************************)
EXTENDS Integers, Sequences, FiniteSets, TLC

\* ------------------------------------------------------------------ bounds
\* Largest int value drawn as an input (ints are 0..MaxInt).
MaxInt == 3
\* Largest bound a registered range may carry (bounds are 1..MaxBound or None).
MaxBound == 1
\* Longest list, tuple or dict drawn as an input.
MaxLen == 2

\* ------------------------------------------------------- error codes (source)
CodeTypeMismatch == 104
CodeBelowMinimum == 105
CodeAboveMaximum == 106
CodeCondition == 107
CodeImmutable == 108

\* ------------------------------------------------------------ Python values
\* A value is a record: k its class, h its numeric value in halves (an int n
\* is h = 2n, the float 1.5 is h = 3), s its characters (a str), items its
\* elements (list, tuple) or keys (dict), vals a dict's values.
MkVal(k, h, s, items, vals) ==
    [k |-> k, h |-> h, s |-> s, items |-> items, vals |-> vals]

IntVal(n) == MkVal("int", 2 * n, <<>>, <<>>, <<>>)
FloatHalves(h) == MkVal("float", h, <<>>, <<>>, <<>>)
BoolVal(b) == MkVal("bool", IF b THEN 2 ELSE 0, <<>>, <<>>, <<>>)
StrVal(chars) == MkVal("str", 0, chars, <<>>, <<>>)
NoneVal == MkVal("NoneType", 0, <<>>, <<>>, <<>>)
ListVal(items) == MkVal("list", 0, <<>>, items, <<>>)
TupleVal(items) == MkVal("tuple", 0, <<>>, items, <<>>)
DictVal(keys, vals) == MkVal("dict", 0, <<>>, keys, vals)
\* An instance of a user class (the self of a method call).
ObjectVal == MkVal("object", 0, <<>>, <<>>, <<>>)

\* isinstance(value, collections.abc.Mapping)
IsMapping(v) == v.k = "dict"
\* isinstance(value, collections.abc.Sequence): str is a Sequence too.
IsSequence(v) == v.k \in {"list", "tuple", "str"}
\* isinstance(value, (int, float)): bool is a subclass of int.
IsNumeric(v) == v.k \in {"int", "float", "bool"}

\* Iterating a value: a str yields its one-character strings.
IterItems(v) ==
    IF v.k = "str" THEN [i \in 1..Len(v.s) |-> StrVal(<<v.s[i]>>)] ELSE v.items

\* ------------------------------------------------------- typing annotations
\* An annotation is a record: c the class or the typing alias, args its
\* type arguments.
MkType(c, args) == [c |-> c, args |-> args]
TInt == MkType("int", <<>>)
TFloat == MkType("float", <<>>)
TStr == MkType("str", <<>>)
TNoneType == MkType("NoneType", <<>>)
TList(e) == MkType("List", <<e>>)
TTuple(e) == MkType("Tuple", <<e>>)
TDict(kt, vt) == MkType("Dict", <<kt, vt>>)
\* typing.Union flattens nested unions; Optional[S] is Union[S, None].
TUnion(alts) == MkType("Union", alts)
TOptional(S) ==
    IF S.c = "Union" THEN TUnion(S.args \o <<TNoneType>>)
    ELSE TUnion(<<S, TNoneType>>)
\* hints.get(name) when name is no key of hints: None.
NoHint == MkType("None", <<>>)

\* typing.get_origin
GetOrigin(T) ==
    CASE T.c = "List" -> "list"
      [] T.c = "Tuple" -> "tuple"
      [] T.c = "Dict" -> "dict"
      [] T.c = "Union" -> "Union"
      [] OTHER -> "None"

\* typing.get_args
GetArgs(T) == T.args

\* dict.get: hints is a function from names to annotations.
HintsGet(hints, name) ==
    IF name \in DOMAIN hints THEN hints[name] ELSE NoHint

\* isinstance(value, cls) for a plain class.
IsInstanceOfClass(v, c) == v.k = c \/ (v.k = "bool" /\ c = "int")

\* A subscripted generic (List[int], Tuple[int], Dict[int, str]) refuses
\* isinstance and issubclass with a TypeError.
IsSubscripted(T) == T.c \in {"List", "Tuple", "Dict"}

\* Union.__instancecheck__: issubclass(type(obj), arg) for each argument in
\* order; the first match answers True, a subscripted argument met before a
\* match raises TypeError.
RECURSIVE UnionCheck(_, _, _)
UnionCheck(v, args, i) ==
    IF i > Len(args) THEN "False"
    ELSE IF IsSubscripted(args[i]) THEN "TypeError"
    ELSE IF IsInstanceOfClass(v, args[i].c) THEN "True"
    ELSE UnionCheck(v, args, i + 1)

\* isinstance(value, expectedType): "True", "False" or "TypeError".
IsInstance(v, T) ==
    IF IsSubscripted(T) THEN "TypeError"
    ELSE IF T.c = "Union" THEN UnionCheck(v, T.args, 1)
    ELSE IF IsInstanceOfClass(v, T.c) THEN "True" ELSE "False"

\* ------------------------------------------------- conversions (coercion)
DigitChars == <<"0", "1", "2", "3", "4", "5", "6", "7", "8", "9">>

IsDigit(c) == \E d \in 1..10 : DigitChars[d] = c
DigitOf(c) == (CHOOSE d \in 1..10 : DigitChars[d] = c) - 1

AllDigits(chars) == Len(chars) > 0 /\ \A i \in 1..Len(chars) : IsDigit(chars[i])

RECURSIVE DigitsValue(_, _, _)
DigitsValue(chars, i, acc) ==
    IF i > Len(chars) THEN acc
    ELSE DigitsValue(chars, i + 1, 10 * acc + DigitOf(chars[i]))

\* The decimal digits of n >= 0.
RECURSIVE NatChars(_)
NatChars(n) ==
    IF n < 10 THEN <<DigitChars[n + 1]>>
    ELSE NatChars(n \div 10) \o <<DigitChars[(n % 10) + 1]>>

IntChars(n) == IF n < 0 THEN <<"-">> \o NatChars(0 - n) ELSE NatChars(n)

\* The characters after an optional leading minus sign.
Unsigned(chars) ==
    IF Len(chars) > 0 /\ chars[1] = "-" THEN Tail(chars) ELSE chars
Signed(chars, n) ==
    IF Len(chars) > 0 /\ chars[1] = "-" THEN 0 - n ELSE n

\* A conversion's result: ok is FALSE when the constructor raises.
Converted(v) == [ok |-> TRUE, val |-> v]
Refused(v) == [ok |-> FALSE, val |-> v]

\* Truncation toward zero of a value given in halves.
TruncHalves(h) == IF h < 0 THEN 0 - ((0 - h) \div 2) ELSE h \div 2

\* int(value): an int or bool as is, a float truncated toward zero, a str
\* parsed as a signed decimal literal; anything else raises.
PyInt(v) ==
    CASE v.k \in {"int", "bool"} -> Converted(IntVal(v.h \div 2))
      [] v.k = "float" -> Converted(IntVal(TruncHalves(v.h)))
      [] v.k = "str" ->
            IF AllDigits(Unsigned(v.s))
            THEN Converted(IntVal(Signed(v.s, DigitsValue(Unsigned(v.s), 1, 0))))
            ELSE Refused(v)
      [] OTHER -> Refused(v)

\* The position of the first "." of chars, 0 when there is none.
DotAt(chars) ==
    IF \E i \in 1..Len(chars) : chars[i] = "."
    THEN CHOOSE i \in 1..Len(chars) :
            chars[i] = "." /\ \A j \in 1..(i - 1) : chars[j] # "."
    ELSE 0

\* float(value) of a str: a signed decimal literal, with an optional
\* fraction; the values of the model are halves, so the fraction is .0 or .5.
ParseFloat(v) ==
    LET u == Unsigned(v.s)
        d == DotAt(u)
        whole == IF d = 0 THEN u ELSE SubSeq(u, 1, d - 1)
        frac == IF d = 0 THEN <<"0">> ELSE SubSeq(u, d + 1, Len(u))
    IN  IF AllDigits(whole) /\ frac \in {<<"0">>, <<"5">>}
        THEN Converted(FloatHalves(Signed(v.s,
                2 * DigitsValue(whole, 1, 0) + (IF frac = <<"5">> THEN 1 ELSE 0))))
        ELSE Refused(v)

\* float(value)
PyFloat(v) ==
    CASE v.k \in {"int", "bool", "float"} -> Converted(FloatHalves(v.h))
      [] v.k = "str" -> ParseFloat(v)
      [] OTHER -> Refused(v)

FloatChars(h) ==
    (IF h < 0 THEN <<"-">> ELSE <<>>)
        \o NatChars((IF h < 0 THEN 0 - h ELSE h) \div 2)
        \o <<".">> \o (IF h % 2 = 0 THEN <<"0">> ELSE <<"5">>)

\* str(value) and repr(value): repr quotes a str, a container shows the
\* repr of its elements.
RECURSIVE PyRepr(_, _)
RECURSIVE JoinRepr(_, _)
RECURSIVE JoinPairs(_, _, _)
JoinRepr(items, i) ==
    IF i > Len(items) THEN <<>>
    ELSE (IF i > 1 THEN <<",", " ">> ELSE <<>>)
            \o PyRepr(items[i], TRUE) \o JoinRepr(items, i + 1)
JoinPairs(keys, vals, i) ==
    IF i > Len(keys) THEN <<>>
    ELSE (IF i > 1 THEN <<",", " ">> ELSE <<>>)
            \o PyRepr(keys[i], TRUE) \o <<":", " ">> \o PyRepr(vals[i], TRUE)
            \o JoinPairs(keys, vals, i + 1)
PyRepr(v, quoted) ==
    CASE v.k = "int" -> IntChars(v.h \div 2)
      [] v.k = "bool" ->
            IF v.h = 0 THEN <<"F", "a", "l", "s", "e">> ELSE <<"T", "r", "u", "e">>
      [] v.k = "float" -> FloatChars(v.h)
      [] v.k = "str" -> IF quoted THEN <<"'">> \o v.s \o <<"'">> ELSE v.s
      [] v.k = "NoneType" -> <<"N", "o", "n", "e">>
      [] v.k = "list" -> <<"[">> \o JoinRepr(v.items, 1) \o <<"]">>
      [] v.k = "tuple" ->
            <<"(">> \o JoinRepr(v.items, 1)
                \o (IF Len(v.items) = 1 THEN <<",">> ELSE <<>>) \o <<")">>
      [] v.k = "dict" -> <<"{">> \o JoinPairs(v.items, v.vals, 1) \o <<"}">>
      [] OTHER -> <<"<", "o", "b", "j", "e", "c", "t", ">">>

\* str(value): never raises.
PyStr(v) == Converted(StrVal(PyRepr(v, FALSE)))

\* expectedType(value): the classes construct; a typing alias (List[int],
\* Dict[int, str], a Union) cannot be instantiated and raises TypeError.
Construct(T, v) ==
    CASE T.c = "int" -> PyInt(v)
      [] T.c = "float" -> PyFloat(v)
      [] T.c = "str" -> PyStr(v)
      [] OTHER -> Refused(v)

\* try: value = expectedType(value) / except Exception: pass
Coerce(T, v) == Construct(T, v).val

\* ------------------------------------------------------ constraint registry
\* Optional[int]: a bound is absent (None) or an int.
NoBound == [has |-> FALSE, v |-> 0]
Bound(n) == [has |-> TRUE, v |-> n]

\* A registered condition is a callable of the application; the model knows
\* two, by name.
EvalCondition(p, v) ==
    CASE p = "positive" -> IsNumeric(v) /\ v.h > 0
      [] p = "notNone" -> v.k # "NoneType"
      [] OTHER -> FALSE

\* dict[key] = item: the item of key is replaced, the others are kept.
DictSet(d, key, item) ==
    [t \in (DOMAIN d) \cup {key} |-> IF t = key THEN item ELSE d[t]]

\* A faulty variant of RegisterRange, which C10 must not hold of: a bound
\* given as None keeps the bound registered before it.
RegisterRange_Merging(rv, T, mn, mx) ==
    IF T \in DOMAIN rv
    THEN DictSet(rv, T, [min |-> IF mn.has THEN mn ELSE rv[T].min,
                         max |-> IF mx.has THEN mx ELSE rv[T].max])
    ELSE DictSet(rv, T, [min |-> mn, max |-> mx])

\* strictMeta.range_validators[type_] = (min_value, max_value)
RegisterRange(rv, T, mn, mx) == DictSet(rv, T, [min |-> mn, max |-> mx])

\* strictMeta.condition_validators[type_] = condition
RegisterCondition(cv, T, p) == DictSet(cv, T, p)

\* ----------------------------------------------------------------- outcomes
\* What a call ends in: it returns ("ok"), raises StrictTypeError from one of
\* the source's five raise sites, or raises one of the interpreter's errors.
Ok == [kind |-> "ok", code |-> 0, site |-> "", name |-> ""]
StrictTypeError(site, name, code) ==
    [kind |-> "StrictTypeError", code |-> code, site |-> site, name |-> name]
PyError(kind) == [kind |-> kind, code |-> 0, site |-> "", name |-> ""]

\* The raise sites of the source, with the code each passes.
RaiseBelowMinimum(name) == StrictTypeError("below_minimum", name, CodeBelowMinimum)
\* A faulty variant of RaiseAboveMaximum, which C9 must not hold of: the
\* code of the minimum's raise site is passed.
RaiseAboveMaximum_SharedCode(name) ==
    StrictTypeError("above_maximum", name, CodeBelowMinimum)
RaiseAboveMaximum(name) == StrictTypeError("above_maximum", name, CodeAboveMaximum)
RaiseCondition(name) == StrictTypeError("condition", name, CodeCondition)
RaiseTypeMismatch(name) == StrictTypeError("type", name, CodeTypeMismatch)
RaiseImmutable(name) == StrictTypeError("immutable", name, CodeImmutable)

\* ---------------------------------------------------- strictMeta._validateType
\* A faulty variant of RangeCheck, which C5 must not hold of: the bounds
\* themselves are refused.
RangeCheck_Exclusive(name, value, slot) ==
    IF ~IsNumeric(value) THEN Ok
    ELSE IF slot.min.has /\ value.h <= 2 * slot.min.v THEN RaiseBelowMinimum(name)
    ELSE IF slot.max.has /\ value.h >= 2 * slot.max.v THEN RaiseAboveMaximum(name)
    ELSE Ok

\* The range check of a value against the registered (min_value, max_value).
RangeCheck(name, value, slot) ==
    IF ~IsNumeric(value) THEN Ok
    ELSE IF slot.min.has /\ value.h < 2 * slot.min.v THEN RaiseBelowMinimum(name)
    ELSE IF slot.max.has /\ value.h > 2 * slot.max.v THEN RaiseAboveMaximum(name)
    ELSE Ok

\* if not isinstance(value, expectedType): raise ... code=104
InstanceCheck(name, value, T) ==
    CASE IsInstance(value, T) = "True" -> Ok
      [] IsInstance(value, T) = "False" -> RaiseTypeMismatch(name)
      [] OTHER -> PyError("TypeError")

\* The checks of a value that is neither a Mapping nor a Sequence: the range,
\* then the condition, then the instance check; the first that raises ends it.
ScalarChecks(name, value, T, rv, cv) ==
    LET r == IF T \in DOMAIN rv THEN RangeCheck(name, value, rv[T]) ELSE Ok
        c == IF T \in DOMAIN cv /\ ~EvalCondition(cv[T], value)
             THEN RaiseCondition(name) ELSE Ok
    IN  IF r.kind # "ok" THEN r
        ELSE IF c.kind # "ok" THEN c
        ELSE InstanceCheck(name, value, T)

RECURSIVE validateType(_, _, _, _, _, _)
RECURSIVE ValidateItems(_, _, _, _, _, _, _)
RECURSIVE ValidatePairs(_, _, _, _, _, _, _, _, _)

\* for item in value: _validateType(name, item, {name: argsType[0]}, ...)
ValidateItems(name, items, i, T, rv, cv, co) ==
    IF i > Len(items) THEN Ok
    ELSE LET r == validateType(name, items[i], [n \in {name} |-> T], rv, cv, co)
         IN  IF r.kind # "ok" THEN r
             ELSE ValidateItems(name, items, i + 1, T, rv, cv, co)

\* for key, val in value.items(): the key against key_type, then the value
\* against value_type.
ValidatePairs(name, keys, vals, i, KT, VT, rv, cv, co) ==
    IF i > Len(keys) THEN Ok
    ELSE LET rk == validateType(name, keys[i], [n \in {name} |-> KT], rv, cv, co)
             rvl == validateType(name, vals[i], [n \in {name} |-> VT], rv, cv, co)
         IN  IF rk.kind # "ok" THEN rk
             ELSE IF rvl.kind # "ok" THEN rvl
             ELSE ValidatePairs(name, keys, vals, i + 1, KT, VT, rv, cv, co)

\* _validateType(name, value, hints, method_name) under the registry (rv, cv)
\* and the coercion switch co. method_name only enters the message.
validateType(name, value, hints, rv, cv, co) ==
    LET expectedType == HintsGet(hints, name)
        originType == GetOrigin(expectedType)
        argsType == GetArgs(expectedType)
        val == IF co THEN Coerce(expectedType, value) ELSE value
    IN  IF expectedType = NoHint THEN Ok
        ELSE IF IsMapping(val) THEN
            IF originType = "dict" THEN
                IF Len(argsType) # 2 THEN PyError("ValueError")
                ELSE ValidatePairs(name, val.items, val.vals, 1,
                                   argsType[1], argsType[2], rv, cv, co)
            ELSE Ok
        ELSE IF IsSequence(val) THEN
            IF originType \in {"list", "tuple"} /\ Len(argsType) > 0
            THEN ValidateItems(name, IterItems(val), 1, argsType[1], rv, cv, co)
            ELSE Ok
        ELSE ScalarChecks(name, val, expectedType, rv, cv)

\* ------------------------------------------- strictFunction / _wrapMethod
\* The body of the wrapped callable is the application's: it returns a value
\* of its own choosing or raises an error of its own.
Returns(v) == [raises |-> FALSE, val |-> v]
BodyRaises == [raises |-> TRUE, val |-> NoneVal]

\* A named argument.
Kw(name, value) == [name |-> name, value |-> value]

\* What one invocation of the wrapper does: entered says whether the wrapped
\* body ran, returned whether a result went back to the caller.
Raised(out, entered) ==
    [out |-> out, entered |-> entered, returned |-> FALSE, result |-> NoneVal]
Returned(v) ==
    [out |-> Ok, entered |-> TRUE, returned |-> TRUE, result |-> v]

\* for idx, (argName, argValue) in enumerate(zip(argNames, args)): validate
RECURSIVE ValidatePositional(_, _, _, _, _, _, _)
ValidatePositional(argNames, args, i, hints, rv, cv, co) ==
    IF i > Len(args) \/ i > Len(argNames) THEN Ok
    ELSE LET r == validateType(argNames[i], args[i], hints, rv, cv, co)
         IN  IF r.kind # "ok" THEN r
             ELSE ValidatePositional(argNames, args, i + 1, hints, rv, cv, co)

\* for kwargName, kwargValue in kwargs.items(): validate
RECURSIVE ValidateKeywords(_, _, _, _, _, _)
ValidateKeywords(kwargs, i, hints, rv, cv, co) ==
    IF i > Len(kwargs) THEN Ok
    ELSE LET r == validateType(kwargs[i].name, kwargs[i].value, hints, rv, cv, co)
         IN  IF r.kind # "ok" THEN r
             ELSE ValidateKeywords(kwargs, i + 1, hints, rv, cv, co)

\* The validation of the result: the wrapper looks the hint up under the
\* name "return value".
ValidateResult(result, hints, rv, cv, co) ==
    IF "return" \in DOMAIN hints
    THEN validateType("return value", result, hints, rv, cv, co)
    ELSE Ok

\* wrapper(*args, **kwargs), the same in strictFunction and in _wrapMethod.
Wrapper(argNames, hints, args, kwargs, body, rv, cv, co) ==
    LET pos == ValidatePositional(argNames, args, 1, hints, rv, cv, co)
        kws == ValidateKeywords(kwargs, 1, hints, rv, cv, co)
        ret == ValidateResult(body.val, hints, rv, cv, co)
    IN  IF pos.kind # "ok" THEN Raised(pos, FALSE)
        ELSE IF kws.kind # "ok" THEN Raised(kws, FALSE)
        ELSE IF body.raises THEN Raised(PyError("BodyError"), TRUE)
        ELSE IF ret.kind # "ok" THEN Raised(ret, TRUE)
        ELSE Returned(body.val)

\* The guarded function of the model: def add(a: int, b: int) -> int.
FuncArgNames == <<"a", "b">>
FuncHints == [a |-> TInt, b |-> TInt, return |-> TInt]

\* The guarded method of the model: def scale(self, a: int) -> int, of a
\* class whose metaclass is strictMeta.
MethodArgNames == <<"self", "a">>
MethodHints == [a |-> TInt, return |-> TInt]

\* --------------------------------------------------- strictClass.__setattr__
\* The guarded class of the model:
\*     class P(strictClass):
\*         x: int
\*         y: int = 5
\* and z, a field the class does not declare.
ClassHints == [x |-> TInt, y |-> TInt]
ClassAttrs == {"y"}
Fields == {"x", "y", "z"}

\* hasattr(self, name): the instance's own attributes and the class's.
HasAttr(dict, name) == name \in DOMAIN dict \/ name \in ClassAttrs

\* A faulty variant of SetAttrResult, which C3 must not hold of: a field
\* the class does not declare is not looked up before it is assigned.
SetAttrResult_DeclaredOnly(dict, name, value, rv, cv, co) ==
    LET r == IF name \in DOMAIN ClassHints
             THEN validateType(name, value, ClassHints, rv, cv, co)
             ELSE Ok
    IN  IF name \in DOMAIN ClassHints /\ HasAttr(dict, name)
        THEN [out |-> RaiseImmutable(name), dict |-> dict]
        ELSE IF r.kind # "ok" THEN [out |-> r, dict |-> dict]
        ELSE [out |-> Ok, dict |-> DictSet(dict, name, value)]

\* __setattr__(self, name, value): the outcome and the instance's attributes
\* after it.
SetAttrResult(dict, name, value, rv, cv, co) ==
    LET r == IF name \in DOMAIN ClassHints
             THEN validateType(name, value, ClassHints, rv, cv, co)
             ELSE Ok
    IN  IF HasAttr(dict, name) THEN [out |-> RaiseImmutable(name), dict |-> dict]
        ELSE IF r.kind # "ok" THEN [out |-> r, dict |-> dict]
        ELSE [out |-> Ok, dict |-> DictSet(dict, name, value)]

\* -------------------------------------------------------------------- state
VARIABLES
    type_coercion_enabled,  \* strictMeta.type_coercion_enabled
    range_validators,       \* strictMeta.range_validators
    condition_validators,   \* strictMeta.condition_validators
    attrs,                  \* the __dict__ of the one strictClass instance
    last                    \* the latest operation and how it ended

vars == <<type_coercion_enabled, range_validators, condition_validators, attrs, last>>

EmptyDict == [t \in {} |-> 0]

\* The record of an operation: op the entry point; for a validation or an
\* assignment, target the name, value and type what was validated; for a
\* call, args the arguments in declaration order, npos how many were
\* positional, entered/returned/result the wrapped body's part; out how it
\* ended; for a registration, type the key, range or cond what was given and
\* replaced whether the key carried something else before.
NoRange == [min |-> NoBound, max |-> NoBound]
NoOperation ==
    [op |-> "none", target |-> "", value |-> NoneVal, type |-> NoHint,
     args |-> <<>>, npos |-> 0, out |-> Ok, entered |-> FALSE,
     returned |-> FALSE, result |-> NoneVal,
     range |-> NoRange, cond |-> "", replaced |-> FALSE]

Init ==
    /\ type_coercion_enabled = FALSE
    /\ range_validators = EmptyDict
    /\ condition_validators = EmptyDict
    /\ attrs = EmptyDict
    /\ last = NoOperation

\* ------------------------------------------------------------------ actions
\* strictMeta.enableTypeCoercion(enable)
enableTypeCoercion(enable) ==
    /\ type_coercion_enabled' = enable
    /\ last' = [NoOperation EXCEPT !.op = "enableTypeCoercion"]
    /\ UNCHANGED <<range_validators, condition_validators, attrs>>

\* strictMeta.addRangeValidator(type_, min_value, max_value)
addRangeValidator(T, mn, mx) ==
    /\ range_validators' = RegisterRange(range_validators, T, mn, mx)
    /\ last' = [NoOperation EXCEPT
                    !.op = "addRangeValidator", !.type = T,
                    !.range = [min |-> mn, max |-> mx],
                    !.replaced = /\ T \in DOMAIN range_validators
                                 /\ range_validators[T] # [min |-> mn, max |-> mx]]
    /\ UNCHANGED <<type_coercion_enabled, condition_validators, attrs>>

\* strictMeta.addConditionValidator(type_, condition)
addConditionValidator(T, p) ==
    /\ condition_validators' = RegisterCondition(condition_validators, T, p)
    /\ last' = [NoOperation EXCEPT
                    !.op = "addConditionValidator", !.type = T, !.cond = p,
                    !.replaced = /\ T \in DOMAIN condition_validators
                                 /\ condition_validators[T] # p]
    /\ UNCHANGED <<type_coercion_enabled, range_validators, attrs>>

\* strictMeta._validateType("value", value, {"value": T}, ...)
Validate(value, T) ==
    /\ last' = [NoOperation EXCEPT
                    !.op = "validate", !.target = "value", !.value = value,
                    !.type = T,
                    !.out = validateType("value", value, [n \in {"value"} |-> T],
                                         range_validators, condition_validators,
                                         type_coercion_enabled)]
    /\ UNCHANGED <<type_coercion_enabled, range_validators, condition_validators, attrs>>

\* The keywords of a call that passes its first npos arguments positionally
\* and the others by name, in declaration order or (rev) in reverse.
RECURSIVE Keywords(_, _, _)
Keywords(names, args, i) ==
    IF i > Len(args) THEN <<>>
    ELSE <<Kw(names[i], args[i])>> \o Keywords(names, args, i + 1)
Reverse(s) == [i \in 1..Len(s) |-> s[Len(s) + 1 - i]]
KeywordsOf(names, args, npos, rev) ==
    LET kws == Keywords(names, args, npos + 1)
    IN  IF rev THEN Reverse(kws) ELSE kws

\* add(...) through strictFunction's wrapper.
Call(args, npos, rev, body) ==
    \E r \in {Wrapper(FuncArgNames, FuncHints, SubSeq(args, 1, npos),
                      KeywordsOf(FuncArgNames, args, npos, rev), body,
                      range_validators, condition_validators,
                      type_coercion_enabled)} :
        /\ last' = [NoOperation EXCEPT
                        !.op = "call", !.target = r.out.name, !.args = args,
                        !.npos = npos, !.out = r.out, !.entered = r.entered,
                        !.returned = r.returned, !.result = r.result]
        /\ UNCHANGED <<type_coercion_enabled, range_validators, condition_validators, attrs>>

\* p.scale(...) through strictMeta._wrapMethod's wrapper; self is positional.
CallMethod(a, npos, body) ==
    \E r \in {Wrapper(MethodArgNames, MethodHints, SubSeq(<<ObjectVal, a>>, 1, npos),
                      KeywordsOf(MethodArgNames, <<ObjectVal, a>>, npos, FALSE), body,
                      range_validators, condition_validators,
                      type_coercion_enabled)} :
        /\ last' = [NoOperation EXCEPT
                        !.op = "method", !.target = r.out.name, !.args = <<a>>,
                        !.npos = npos - 1, !.out = r.out, !.entered = r.entered,
                        !.returned = r.returned, !.result = r.result]
        /\ UNCHANGED <<type_coercion_enabled, range_validators, condition_validators, attrs>>

\* p.<name> = value
SetAttr(name, value) ==
    \E r \in {SetAttrResult(attrs, name, value, range_validators,
                            condition_validators, type_coercion_enabled)} :
        /\ attrs' = r.dict
        /\ last' = [NoOperation EXCEPT
                        !.op = "setattr", !.target = name, !.value = value,
                        !.type = HintsGet(ClassHints, name), !.out = r.out]
        /\ UNCHANGED <<type_coercion_enabled, range_validators, condition_validators>>

\* ------------------------------------------------------------------- inputs
Ints == {IntVal(n) : n \in 0..MaxInt}
Float15 == FloatHalves(3)
Str3 == StrVal(<<"3">>)
StrX == StrVal(<<"x">>)
Scalars == Ints \cup {Float15, BoolVal(TRUE), Str3, StrX, NoneVal}

SeqsUpTo(S, n) == UNION {[1..m -> S] : m \in 0..n}
DistinctSeqs(S, n) ==
    {s \in SeqsUpTo(S, n) : \A i, j \in 1..Len(s) : i # j => s[i] # s[j]}

Elems == {IntVal(1), Float15, StrX}
Lists == {ListVal(s) : s \in SeqsUpTo(Elems, MaxLen)}
Tuples == {TupleVal(s) : s \in SeqsUpTo(Elems, MaxLen)}
KeyElems == {IntVal(1), IntVal(2), StrX}
ItemElems == {IntVal(1), StrX}
Dicts ==
    UNION {{DictVal(ks, vs) : vs \in [1..Len(ks) -> ItemElems]} :
                ks \in DistinctSeqs(KeyElems, MaxLen)}
Values == Scalars \cup Lists \cup Tuples \cup Dicts

ValidatorTypes ==
    {TInt, TFloat, TStr, TList(TInt), TTuple(TInt), TDict(TInt, TStr),
     TOptional(TInt), TOptional(TList(TInt)), TOptional(TDict(TInt, TStr)),
     TOptional(TUnion(<<TInt, TStr>>))}

\* The registrations of a setup that constrains int alone.
IntRange == [min |-> Bound(1), max |-> Bound(MaxBound)]

\* The registrations drawn when the registry itself is examined.
RegTypes == {TInt, TFloat}
Bounds == {NoBound} \cup {Bound(n) : n \in 1..MaxBound}
Conditions == {"positive", "notNone"}
RegValues == Ints \cup {Float15, BoolVal(TRUE), Str3, NoneVal}

\* The inputs of the guards.
ArgValues == {IntVal(2), Float15, Str3}
FewArgValues == {IntVal(2), Str3}
Bodies == {Returns(IntVal(2)), Returns(Float15), BodyRaises}
SetValues == {IntVal(0), IntVal(MaxInt), Float15, Str3}
GuardTypes == {TInt, TOptional(TInt)}

\* ----------------------------------------------------------- specifications
\* The setup of a registry that constrains int.
SetUp ==
    \/ \E enable \in BOOLEAN : enableTypeCoercion(enable)
    \/ addRangeValidator(TInt, IntRange.min, IntRange.max)
    \/ addConditionValidator(TInt, "positive")

\* The whole program: the registry's setup, the validator and both guards.
Next ==
    \/ SetUp
    \/ \E v \in SetValues, T \in GuardTypes : Validate(v, T)
    \/ \E a, b \in FewArgValues, npos \in 0..2, rev \in BOOLEAN, body \in Bodies :
            Call(<<a, b>>, npos, rev, body)
    \/ \E a \in FewArgValues, npos \in 1..2, body \in Bodies : CallMethod(a, npos, body)
    \/ \E f \in Fields, v \in SetValues : SetAttr(f, v)

Spec == Init /\ [][Next]_vars

\* The invocation guard: calls of the guarded function and method.
NextCall ==
    \/ SetUp
    \/ \E a, b \in ArgValues, npos \in 0..2, rev \in BOOLEAN, body \in Bodies :
            Call(<<a, b>>, npos, rev, body)
    \/ \E a \in ArgValues, npos \in 1..2, body \in Bodies : CallMethod(a, npos, body)

SpecCall == Init /\ [][NextCall]_vars

\* The attribute guard: assignments to the fields of one instance.
NextObject ==
    \/ SetUp
    \/ \E f \in Fields, v \in SetValues \cup {IntVal(2)} : SetAttr(f, v)

SpecObject == Init /\ [][NextObject]_vars

\* The validator over the whole value and annotation universe, under a
\* registry that constrains int.
NextValidator ==
    \/ SetUp
    \/ \E v \in Values, T \in ValidatorTypes : Validate(v, T)

SpecValidator == Init /\ [][NextValidator]_vars

\* The registry under every sequence of registrations, and the validator
\* over the registered types.
NextRegistry ==
    \/ \E enable \in BOOLEAN : enableTypeCoercion(enable)
    \/ \E T \in RegTypes, mn \in Bounds, mx \in Bounds : addRangeValidator(T, mn, mx)
    \/ \E T \in RegTypes, p \in Conditions : addConditionValidator(T, p)
    \/ \E v \in RegValues, T \in RegTypes : Validate(v, T)

SpecRegistry == Init /\ [][NextRegistry]_vars

\* ------------------------------------------------------------------- claims
\* Conformance of a value to a declared type as the specification defines
\* it: a primitive by an instance check, a list or tuple by its concrete
\* kind and every element, a mapping by every key and value, a union (and
\* so an Optional) by any alternative.
RECURSIVE Conforms(_, _)
Conforms(v, T) ==
    CASE T.c = "Union" -> \E i \in 1..Len(T.args) : Conforms(v, T.args[i])
      [] T.c = "List" ->
            v.k = "list" /\ \A i \in 1..Len(v.items) : Conforms(v.items[i], T.args[1])
      [] T.c = "Tuple" ->
            v.k = "tuple" /\ \A i \in 1..Len(v.items) : Conforms(v.items[i], T.args[1])
      [] T.c = "Dict" ->
            /\ v.k = "dict"
            /\ \A i \in 1..Len(v.items) :
                    Conforms(v.items[i], T.args[1]) /\ Conforms(v.vals[i], T.args[2])
      [] OTHER -> IsInstanceOfClass(v, T.c)

IsGuardedCall == last.op \in {"call", "method"}
\* The declared parameters the arguments of the last call were passed for.
ParamNames == IF last.op = "call" THEN <<"a", "b">> ELSE <<"a">>
ParamType(p) == IF last.op = "call" THEN FuncHints[p] ELSE MethodHints[p]
\* The parameters the last call passed a non-conforming value for.
BadParams ==
    {ParamNames[i] : i \in {j \in 1..Len(last.args) :
                                ~Conforms(last.args[j], ParamType(ParamNames[j]))}}

\* C1 (as claimed): a guarded call that passes a non-conforming value for a
\* typed parameter raises TypeMismatch naming such a parameter, and the
\* wrapped body is not entered.
C1_BadArgumentRaisesBeforeBody ==
    (IsGuardedCall /\ BadParams # {}) =>
        /\ last.out.kind = "StrictTypeError"
        /\ last.out.code = 104
        /\ last.out.name \in BadParams
        /\ ~last.entered

\* C2 (as claimed): a guarded call with a declared return type hands back
\* only a result that conforms to it; a non-conforming result raises
\* instead of being returned.
C2_ReturnedResultConforms ==
    (IsGuardedCall /\ last.returned) => Conforms(last.result, ParamType("return"))

\* C3: write-once. A step that assigns to a field the instance already
\* holds raises ImmutableAttributeViolation (108) naming the field, whatever
\* the value and whether or not the field is declared, and no step changes
\* or removes the value a field holds.
C3_WriteOnce ==
    [][/\ \A f \in DOMAIN attrs : f \in DOMAIN attrs' /\ attrs'[f] = attrs[f]
       /\ (last'.op = "setattr" /\ last'.target \in DOMAIN attrs) =>
                /\ last'.out.kind = "StrictTypeError"
                /\ last'.out.code = 108
                /\ last'.out.name = last'.target
                /\ attrs' = attrs]_vars

\* C3's case: a field without a declared type holds one value and the
\* assignment of another value to it has just been refused with 108.
C3_Witness ==
    /\ last.op = "setattr" /\ last.target = "z"
    /\ last.out.code = 108
    /\ "z" \in DOMAIN attrs /\ attrs["z"] # last.value

\* C4 (as claimed): an assignment is refused as an immutability violation
\* only when the instance holds a value assigned to the field before; an
\* assignment to a declared field that succeeded assigned a conforming value.
C4_UnsetFieldDecidedByValidation ==
    last.op = "setattr" =>
        /\ last.out.code = 108 => last.target \in DOMAIN attrs
        /\ (last.out.kind = "ok" /\ last.target \in DOMAIN ClassHints) =>
                Conforms(last.value, ClassHints[last.target])

\* A value within the registered bounds, a missing bound not constraining.
InRange(v, slot) ==
    /\ slot.min.has => v.h >= 2 * slot.min.v
    /\ slot.max.has => v.h <= 2 * slot.max.v

\* The value the validator checks: the coerced one when coercion is enabled.
Checked(v, T) == IF type_coercion_enabled THEN Coerce(T, v) ELSE v

\* The last operation validated a numeric value against a type that
\* carries a registered range.
RangedValidation ==
    /\ last.op = "validate"
    /\ last.type \in DOMAIN range_validators
    /\ IsNumeric(last.value)

\* C5 (as claimed): for a type with a registered range and a numeric value,
\* validation succeeds iff the value is within the range, and a violation
\* carries the RangeViolation code 105.
C5_SucceedsIffInRange ==
    RangedValidation =>
        /\ last.out.kind = "ok" <=> InRange(last.value, range_validators[last.type])
        /\ ~InRange(last.value, range_validators[last.type]) => last.out.code = 105

\* C5 (amended): for a type with a registered range and a numeric value (the
\* coerced value when coercion is enabled), validation raises a range error
\* iff the value is outside the range: 105 below the minimum, 106 above the
\* maximum, a missing bound not constraining. A value within the range
\* succeeds iff it also passes the type's registered condition and the
\* instance check.
C5_RangeErrorIffOutOfRange ==
    RangedValidation =>
        LET T == last.type
            w == Checked(last.value, T)
            slot == range_validators[T]
            out == last.out
        IN  /\ IsNumeric(w)
            /\ out.site \in {"below_minimum", "above_maximum"} <=> ~InRange(w, slot)
            /\ (slot.min.has /\ w.h < 2 * slot.min.v) =>
                    out.code = 105 /\ out.site = "below_minimum"
            /\ (InRange(w, [slot EXCEPT !.max = NoBound]) /\ ~InRange(w, slot)) =>
                    out.code = 106 /\ out.site = "above_maximum"
            /\ InRange(w, slot) =>
                    (out.kind = "ok" <=>
                        /\ T \in DOMAIN condition_validators =>
                                EvalCondition(condition_validators[T], w)
                        /\ IsInstanceOfClass(w, T.c))

\* C5's case: int carries a range with both bounds, and the validation of an
\* int above the maximum has just been refused at the above-maximum site.
C5_Witness ==
    /\ last.op = "validate" /\ last.type = TInt /\ last.value.k = "int"
    /\ TInt \in DOMAIN range_validators
    /\ range_validators[TInt].min.has /\ range_validators[TInt].max.has
    /\ last.value.h > 2 * range_validators[TInt].max.v
    /\ last.out.site = "above_maximum"

IsListOrTuple(v) == v.k \in {"list", "tuple"}

\* C6 (as claimed): a list or tuple validated against List[E] or Tuple[E]
\* succeeds iff its kind is the declared one and every element conforms to
\* E, and fails with TypeMismatch otherwise.
C6_SequenceKindAndElements ==
    (last.op = "validate" /\ last.type.c \in {"List", "Tuple"} /\ IsListOrTuple(last.value)) =>
        /\ last.out.kind = "ok" <=> Conforms(last.value, last.type)
        /\ last.out.kind # "ok" =>
                last.out.kind = "StrictTypeError" /\ last.out.code = 104

\* C7 (as claimed): a dict validated against Dict[K, V] succeeds iff every
\* key conforms to K and every value to V, and fails with TypeMismatch
\* tagged with the outer name otherwise.
C7_MappingKeysAndValues ==
    (last.op = "validate" /\ last.type.c = "Dict" /\ IsMapping(last.value)) =>
        /\ last.out.kind = "ok" <=> Conforms(last.value, last.type)
        /\ last.out.kind # "ok" =>
                /\ last.out.kind = "StrictTypeError"
                /\ last.out.code = 104
                /\ last.out.name = last.target

IsOptional(T) == T.c = "Union" /\ \E i \in 1..Len(T.args) : T.args[i] = TNoneType

\* C8 (as claimed): None validated against Optional[S] succeeds, whatever S.
C8_NoneAgainstOptionalSucceeds ==
    (last.op = "validate" /\ last.value = NoneVal /\ IsOptional(last.type)) =>
        last.out.kind = "ok"

\* The failure kind of each raise site, as the specification names it.
KindOfSite(site) ==
    CASE site = "type" -> "TypeMismatch"
      [] site \in {"below_minimum", "above_maximum"} -> "RangeViolation"
      [] site = "condition" -> "ConditionViolation"
      [] site = "immutable" -> "ImmutableAttributeViolation"
      [] OTHER -> "none"

\* The suggested code table of the specification.
CodesOfKind(kind) ==
    CASE kind = "TypeMismatch" -> {104}
      [] kind = "RangeViolation" -> {105}
      [] kind = "ConditionViolation" -> {106, 107}
      [] kind = "ImmutableAttributeViolation" -> {108}
      [] OTHER -> {}

\* C9 (as claimed): every rejection carries the code of its failure kind:
\* TypeMismatch 104, RangeViolation 105 (below the minimum and above the
\* maximum alike), ConditionViolation 106 or 107, ImmutableAttributeViolation
\* 108.
C9_CodeOfKind ==
    last.out.kind = "StrictTypeError" =>
        last.out.code \in CodesOfKind(KindOfSite(last.out.site))

\* The code each raise site passes.
CodeOfSite(site) ==
    CASE site = "type" -> 104
      [] site = "below_minimum" -> 105
      [] site = "above_maximum" -> 106
      [] site = "condition" -> 107
      [] site = "immutable" -> 108
      [] OTHER -> 0

\* C9 (amended): every rejection carries the code of its raise site, one
\* code per site: a type mismatch 104, a value below the minimum 105, a
\* value above the maximum 106, a failed condition 107, an immutability
\* violation 108.
C9_CodeOfSite ==
    last.out.kind = "StrictTypeError" =>
        /\ last.out.site \in {"type", "below_minimum", "above_maximum",
                              "condition", "immutable"}
        /\ last.out.code = CodeOfSite(last.out.site)

\* C9's case: a value above the registered maximum has been refused.
C9_Witness ==
    /\ last.out.kind = "StrictTypeError"
    /\ last.out.site = "above_maximum"
    /\ IsNumeric(last.value) /\ last.value.h > 2 * IntRange.max.v

\* The registry d cut down to the slot of T.
Restrict(d, T) == [t \in (DOMAIN d) \cap {T} |-> d[t]]
Outcome(v, T, rv, cv, co) == validateType("value", v, [n \in {"value"} |-> T], rv, cv, co)

\* Validation against T consults T's own range and condition slots and no
\* other type's.
EnforcesOwnSlots ==
    \A v \in RegValues, T \in RegTypes :
        Outcome(v, T, range_validators, condition_validators, type_coercion_enabled)
            = Outcome(v, T, Restrict(range_validators, T),
                      Restrict(condition_validators, T), type_coercion_enabled)

\* C10: last registration wins. A registration of a range (of a condition)
\* for T fills T's one range (condition) slot with exactly what was given
\* and keeps every other slot, registering the same again changes nothing,
\* and nothing but a registration changes the registry; validation against
\* T enforces what T's slots hold, so the latest registration for T and no
\* earlier one, whatever is registered for other types.
C10_LastRegistrationWins ==
    /\ []EnforcesOwnSlots
    /\ [][LET T == last'.type
              rv == range_validators
              cv == condition_validators
          IN  /\ last'.op = "addRangeValidator" =>
                    /\ DOMAIN range_validators' = DOMAIN rv \cup {T}
                    /\ range_validators'[T] = last'.range
                    /\ \A U \in DOMAIN rv \ {T} : range_validators'[U] = rv[U]
                    /\ condition_validators' = cv
                    /\ RegisterRange(range_validators', T, last'.range.min,
                                     last'.range.max) = range_validators'
              /\ last'.op = "addConditionValidator" =>
                    /\ DOMAIN condition_validators' = DOMAIN cv \cup {T}
                    /\ condition_validators'[T] = last'.cond
                    /\ \A U \in DOMAIN cv \ {T} : condition_validators'[U] = cv[U]
                    /\ range_validators' = rv
                    /\ RegisterCondition(condition_validators', T, last'.cond)
                            = condition_validators'
              /\ last'.op \notin {"addRangeValidator", "addConditionValidator"} =>
                    range_validators' = rv /\ condition_validators' = cv]_vars

\* C10's case: int carried a range with a minimum; a registration for int
\* that gives no minimum has just replaced it, while float keeps a range and
\* int a condition of their own.
C10_Witness ==
    /\ last.op = "addRangeValidator" /\ last.type = TInt /\ last.replaced
    /\ ~last.range.min.has /\ last.range.max.has
    /\ range_validators[TInt] = last.range
    /\ TFloat \in DOMAIN range_validators /\ range_validators[TFloat].min.has
    /\ TInt \in DOMAIN condition_validators

====
